---------------------------- MODULE Spec2Model ----------------------------
(***************************************************************************)
(* A model of the XCB wrangler generator (auto.py): the type/declaration   *)
(* formatter, the entity model built from libclang cursors, the code       *)
(* synthesizer, the wrangler aggregator and the template substitution      *)
(* engine, together with the main loop that drives them.                   *)
(*                                                                         *)
(* Python strings are modelled as sequences of one-character strings, so   *)
(* that replace / strip / startswith / slicing are computed character by   *)
(* character exactly as the interpreter computes them.                     *)
(***************************************************************************)
EXTENDS Integers, Sequences, FiniteSets, TLC

VARIABLES
  \* --- the __main__ run -------------------------------------------------
  headers,      \* the header list of the run (indexes into HeaderFiles)
  hidx,         \* position of the for loop: index of the current header
  pc,           \* statement of the loop body that executes next
  parsed,       \* (functions, types, definitions) returned by parse_file
  wrangler,     \* the wrangler context: bucket -> list of lines
  files,        \* content of the two destination files
  nwrites,      \* number of calls of write_wrangler_to_files so far
  \* --- one Function built from a cursor and its generated fragments -----
  fcursor,      \* a FUNCTION_DECL cursor
  function,     \* Function(fcursor), once built
  fragments,    \* the lines generated for [function], once generated
  fpc,          \* position of this scenario
  \* --- one call of str(Argument): mergeTypeAndVariable, step by step ----
  acursor,      \* a PARM_DECL cursor
  argument,     \* Argument(acursor), once built
  mtype,        \* local variable type of mergeTypeAndVariable
  dimension,    \* local variable dimension of mergeTypeAndVariable
  mpc,          \* position inside mergeTypeAndVariable
  mresult,      \* its return value, once returned
  \* --- collect_defines on a header text, then the definitions bucket ----
  text,         \* the lines f.readlines() yields
  defines,      \* the list collect_defines returns
  dpc,          \* position of the define passthrough
  \* --- TypeDefinition built from a TYPEDEF_DECL cursor ------------------
  tcursor,      \* a TYPEDEF_DECL cursor
  typedefinition, \* TypeDefinition(tcursor), once built
  tpc           \* position of this scenario

mainVars     == <<headers, hidx, pc, parsed, wrangler, files, nwrites>>
functionVars == <<fcursor, function, fragments, fpc>>
mergeVars    == <<acursor, argument, mtype, dimension, mpc, mresult>>
definesVars  == <<text, defines, dpc>>
typedefVars  == <<tcursor, typedefinition, tpc>>
vars == <<mainVars, functionVars, mergeVars, definesVars, typedefVars>>

\* Python's None; no string of characters equals it.
None == <<"None">>

-----------------------------------------------------------------------------
(* Bounds of the model.                                                    *)

\* longest header list of a run
MaxHeaders == 3
\* number of tokens a raw type spelling is assembled from
MaxTokens == 3
\* number of tokens the type spelling of a merged argument is assembled from
MaxMergeTokens == 4
\* number of lines of a scanned header text
MaxLines == 3
\* number of children of a TYPEDEF_DECL cursor
MaxChildren == 3

-----------------------------------------------------------------------------
(* String literals of the source.                                          *)

S_SpaceStar ==
  <<" ", "*">>
S_StarSpace ==
  <<"*", " ">>
S_struct ==
  <<"s", "t", "r", "u", "c", "t", " ">>
S_Star ==
  <<"*">>
S_Space ==
  <<" ">>
S_Comma ==
  <<",">>
S_CommaSpace ==
  <<",", " ">>
S_Newline ==
  <<"\n">>
S_typedef ==
  <<"t", "y", "p", "e", "d", "e", "f", " ">>
S_FnPtrOpen ==
  <<" ", "(", "*", "t">>
S_FnPtrClose ==
  <<")", " ", "(">>
S_ParenSemi ==
  <<")", ";">>
S_extern_t ==
  <<"e", "x", "t", "e", "r", "n", " ", "t">>
S_impl_semi ==
  <<"_", "i", "m", "p", "l", ";">>
S_t ==
  <<"t">>
S_Indent ==
  <<" ", " ">>
S_LIBRARY_FIND ==
  <<"_", "L", "I", "B", "R", "A", "R", "Y", "_", "F", "I", "N", "D", "(">>
S_ParenOpen ==
  <<"(">>
S_ParenClose ==
  <<")">>
S_Semi ==
  <<";">>
S_BodyOpen ==
  <<" ", "{", "\n">>
S_return ==
  <<" ", " ", "r", "e", "t", "u", "r", "n", " ">>
S_impl_call ==
  <<"_", "i", "m", "p", "l", "(">>
S_BodyClose ==
  <<"}", "\n">>
S_CommentOpen ==
  <<"/", "*", " ">>
S_CommentClose ==
  <<" ", "*", "/">>
S_DotH ==
  <<".", "h">>
S_DefinePrefix ==
  <<"#", "d", "e", "f", "i", "n", "e", " ", "X", "C", "B">>
S_SemiNewline ==
  <<";", "\n">>
S_Percent ==
  <<"%">>
S_Underscore ==
  <<"_">>
S_functions ==
  <<"f", "u", "n", "c", "t", "i", "o", "n", "s">>
S_types ==
  <<"t", "y", "p", "e", "s">>
S_definitions ==
  <<"d", "e", "f", "i", "n", "i", "t", "i", "o", "n", "s">>
S_typedefs ==
  <<"t", "y", "p", "e", "d", "e", "f", "s">>
S_wrapper_declarations ==
  <<"w", "r", "a", "p", "p", "e", "r", "_", "d", "e", "c", "l", "a", "r", "a", "t", "i", "o", "n", "s">>
S_declarations ==
  <<"d", "e", "c", "l", "a", "r", "a", "t", "i", "o", "n", "s">>
S_dynload ==
  <<"d", "y", "n", "l", "o", "a", "d">>
S_wrappers ==
  <<"w", "r", "a", "p", "p", "e", "r", "s">>
S_all ==
  <<"a", "l", "l">>
S_union ==
  <<"u", "n", "i", "o", "n", " ">>
S_enum ==
  <<"e", "n", "u", "m", " ">>
S_Eq ==
  <<" ", "=", " ">>
S_CommaNewline ==
  <<",", "\n">>
S_BraceClose ==
  <<"}">>
-----------------------------------------------------------------------------
(* Python's string and list primitives, as the source uses them.           *)

SetMin(S) == CHOOSE x \in S : \A y \in S : x <= y
SetMax(S) == CHOOSE x \in S : \A y \in S : y <= x

\* str.strip() removes leading and trailing whitespace characters.
IsSpace(c) == c \in {" ", "\t", "\n", "\r"}

strip(s) ==
  LET keep == {i \in 1..Len(s) : ~IsSpace(s[i])}
  IN  IF keep = {} THEN <<>> ELSE SubSeq(s, SetMin(keep), SetMax(keep))

startswith(s, p) == Len(p) <= Len(s) /\ SubSeq(s, 1, Len(p)) = p

endswith(s, p) == Len(p) <= Len(s) /\ SubSeq(s, Len(s) - Len(p) + 1, Len(s)) = p

\* A slice bound as Python normalises it: negative counts from the end.
SliceBound(s, i) ==
  IF i < 0 THEN (IF Len(s) + i < 0 THEN 0 ELSE Len(s) + i)
  ELSE (IF i > Len(s) THEN Len(s) ELSE i)

\* s[i:]
SliceFrom(s, i) == SubSeq(s, SliceBound(s, i) + 1, Len(s))

\* s[:i]
SliceTo(s, i) == SubSeq(s, 1, SliceBound(s, i))

\* str.find(sub): the 0-based index of the first occurrence, -1 when absent.
find(s, sub) ==
  LET at == {i \in 1..(Len(s) - Len(sub) + 1) : SubSeq(s, i, i + Len(sub) - 1) = sub}
  IN  IF at = {} THEN -1 ELSE SetMin(at) - 1

\* str.replace(old, new) for a non-empty old: every non-overlapping
\* occurrence, found left to right, is replaced.
RECURSIVE replace(_, _, _)
replace(s, old, new) ==
  LET index == find(s, old)
  IN  IF index = -1 THEN s
      ELSE SliceTo(s, index) \o new
             \o replace(SliceFrom(s, index + Len(old)), old, new)

\* str.rfind(c): the 0-based index of the last occurrence, -1 when absent.
rfind(s, c) ==
  LET at == {i \in 1..Len(s) : s[i] = c}
  IN  IF at = {} THEN -1 ELSE SetMax(at) - 1

\* sep.join(list)
RECURSIVE join(_, _)
join(sep, list) ==
  IF list = <<>> THEN <<>>
  ELSE IF Len(list) = 1 THEN list[1]
  ELSE list[1] \o sep \o join(sep, Tail(list))

\* str.upper()
LowerCase ==
  <<"a", "b", "c", "d", "e", "f", "g", "h", "i", "j", "k", "l", "m",
    "n", "o", "p", "q", "r", "s", "t", "u", "v", "w", "x", "y", "z">>
UpperCase ==
  <<"A", "B", "C", "D", "E", "F", "G", "H", "I", "J", "K", "L", "M",
    "N", "O", "P", "Q", "R", "S", "T", "U", "V", "W", "X", "Y", "Z">>

upper(s) ==
  [i \in 1..Len(s) |->
     IF \E k \in 1..26 : LowerCase[k] = s[i]
     THEN UpperCase[CHOOSE k \in 1..26 : LowerCase[k] = s[i]]
     ELSE s[i]]

\* os.path.basename(path): what follows the last slash.
basename(path) == SliceFrom(path, rfind(path, "/") + 1)

\* "{}".format(n) of an integer: its base-10 literal.
DigitChars == <<"0", "1", "2", "3", "4", "5", "6", "7", "8", "9">>

RECURSIVE FormatNat(_)
FormatNat(n) ==
  IF n < 10 THEN <<DigitChars[n + 1]>>
  ELSE FormatNat(n \div 10) \o <<DigitChars[(n % 10) + 1]>>

FormatInt(n) == IF n < 0 THEN <<"-">> \o FormatNat(0 - n) ELSE FormatNat(n)

\* [f(x) for x in list]
Map(F(_), list) == [i \in 1..Len(list) |-> F(list[i])]

\* the concatenation of a list of lists
RECURSIVE Flatten(_)
Flatten(lists) ==
  IF lists = <<>> THEN <<>> ELSE lists[1] \o Flatten(Tail(lists))

-----------------------------------------------------------------------------
(* Parsing: the formatter.                                                 *)

formatAndCleanType(type) ==
  LET replaced == replace(type, S_SpaceStar, S_StarSpace)
      stripped == strip(replaced)
  IN  IF startswith(stripped, S_struct) /\ ~endswith(stripped, S_Star)
      THEN SliceFrom(stripped, 7)
      ELSE stripped

\* MergeLoopBody with the stripped group put behind the collected ones.
MergeLoopBody_Appending(st) ==
  LET index == rfind(st.type, "[")
  IN  [type      |-> SliceTo(st.type, index),
       dimension |-> st.dimension \o SliceFrom(st.type, index)]

\* One iteration of the while loop of mergeTypeAndVariable.
MergeLoopBody(st) ==
  LET index == rfind(st.type, "[")
  IN  [type      |-> SliceTo(st.type, index),
       dimension |-> SliceFrom(st.type, index) \o st.dimension]

MergeLoopCondition(st) == endswith(st.type, <<"]">>)

RECURSIVE MergeLoop(_)
MergeLoop(st) ==
  IF MergeLoopCondition(st) THEN MergeLoop(MergeLoopBody(st)) ELSE st

MergeEntry(type) == [type |-> strip(type), dimension |-> <<>>]

MergeFormat(st, variable) ==
  strip(st.type) \o S_Space \o variable \o st.dimension

mergeTypeAndVariable(type, variable) ==
  MergeFormat(MergeLoop(MergeEntry(type)), variable)

-----------------------------------------------------------------------------
(* Parsing: the entity model.  A cursor is a record with the fields of a   *)
(* libclang cursor the source reads: kind, spelling, type (type.spelling), *)
(* result_type (result_type.spelling), canonical                           *)
(* (type.get_canonical().spelling), enum_value, file (location.file.name,  *)
(* None when location.file is None) and children (get_children()).         *)

Argument(cursor) ==
  [name |-> cursor.spelling,
   type |-> formatAndCleanType(cursor.type)]

ArgumentStr(argument_) == mergeTypeAndVariable(argument_.type, argument_.name)

IsParmDecl(child) == child.kind = "PARM_DECL"

Function(cursor) ==
  [name        |-> cursor.spelling,
   return_type |-> formatAndCleanType(cursor.result_type),
   arguments   |-> Map(Argument, SelectSeq(cursor.children, IsParmDecl))]

FunctionStr(function_) ==
  function_.return_type \o S_Space \o function_.name
    \o Flatten(Map(LAMBDA a : S_Newline \o ArgumentStr(a), function_.arguments))

-----------------------------------------------------------------------------
(* Parsing: the composite type renderer.                                   *)

IsFieldDecl(child) == child.kind = "FIELD_DECL"

FieldLine(child) ==
  S_Indent
    \o mergeTypeAndVariable(formatAndCleanType(child.type), child.spelling)
    \o S_SemiNewline

combine_struct_or_union_decl(cursor) ==
  cursor.spelling \o S_BodyOpen
    \o Flatten(Map(FieldLine, SelectSeq(cursor.children, IsFieldDecl)))
    \o S_BraceClose

combine_struct_decl(cursor) == S_struct \o combine_struct_or_union_decl(cursor)

combine_union_decl(cursor) == S_union \o combine_struct_or_union_decl(cursor)

IsEnumConstantDecl(child) == child.kind = "ENUM_CONSTANT_DECL"

EnumLine(child) ==
  S_Indent \o child.spelling \o S_Eq \o FormatInt(child.enum_value)
    \o S_CommaNewline

combine_enum_decl(cursor) ==
  S_enum \o cursor.spelling \o S_BodyOpen
    \o Flatten(Map(EnumLine, SelectSeq(cursor.children, IsEnumConstantDecl)))
    \o S_BraceClose

\* The if/elif chain of the loop body of TypeDefinition.__init__: the value
\* of self.type after the body ran for child, type being its value before.
TypeDefinitionLoopBody(child, type) ==
  IF child.kind = "STRUCT_DECL" THEN combine_struct_decl(child)
  ELSE IF child.kind = "UNION_DECL" THEN combine_union_decl(child)
  ELSE IF child.kind = "ENUM_DECL" THEN combine_enum_decl(child)
  ELSE IF child.kind = "TYPE_REF" THEN child.spelling
  ELSE type

\* The for loop of TypeDefinition.__init__ over the remaining children.
RECURSIVE TypeDefinitionLoop(_, _)
TypeDefinitionLoop(children, type) ==
  IF children = <<>> THEN type
  ELSE TypeDefinitionLoop(Tail(children),
                          TypeDefinitionLoopBody(children[1], type))

TypeDefinition(cursor) ==
  LET type == TypeDefinitionLoop(cursor.children, None)
  IN  [name |-> cursor.spelling,
       type |-> IF type = None
                THEN formatAndCleanType(cursor.canonical)
                ELSE type]

TypeDefinitionStr(td) == S_typedef \o td.type \o S_Space \o td.name

-----------------------------------------------------------------------------
(* Parsing: the declaration extractor.  A translation unit is a record     *)
(* with spelling (tu.cursor.spelling, the file name) and cursors           *)
(* (tu.cursor.walk_preorder()).                                            *)

\* The two `continue` guards shared by the collectors.
FromParsedFile(tu, cursor) ==
  /\ cursor.file # None
  /\ cursor.file = tu.spelling

collect_function_prototypes(tu) ==
  Map(Function,
      SelectSeq(tu.cursors,
                LAMBDA c : FromParsedFile(tu, c) /\ c.kind = "FUNCTION_DECL"))

collect_types(tu) ==
  Map(TypeDefinition,
      SelectSeq(tu.cursors,
                LAMBDA c : FromParsedFile(tu, c) /\ c.kind = "TYPEDEF_DECL"))

\* collect_defines appending the line as read instead of the stripped one.
collect_defines_Unstripped(lines) ==
  SelectSeq(lines, LAMBDA line : startswith(strip(line), S_DefinePrefix))

\* lines is what f.readlines() yields.
collect_defines(lines) ==
  SelectSeq(Map(strip, lines), LAMBDA line : startswith(line, S_DefinePrefix))

-----------------------------------------------------------------------------
(* Wrangler generation: the code synthesizer.                              *)

generate_function_typedefs(functions) ==
  Map(LAMBDA f :
        S_typedef \o f.return_type \o S_FnPtrOpen \o f.name \o S_FnPtrClose
          \o join(S_Comma, Map(ArgumentStr, f.arguments)) \o S_ParenSemi,
      functions)

generate_extern_function_declarations(functions) ==
  Map(LAMBDA f : S_extern_t \o f.name \o S_Space \o f.name \o S_impl_semi,
      functions)

generate_extern_function_definitions(functions) ==
  Map(LAMBDA f : S_t \o f.name \o S_Space \o f.name \o S_impl_semi,
      functions)

macro_prefix(header) == upper(replace(basename(header), S_DotH, <<>>))

generate_dynload_calls(header, functions) ==
  Map(LAMBDA f :
        S_Indent \o macro_prefix(header) \o S_LIBRARY_FIND \o f.name
          \o S_ParenSemi,
      functions)

ArgumentName(argument_) == argument_.name

\* The text both wrapper generators start a line with.
WrapperSignature(f) ==
  formatAndCleanType(f.return_type) \o S_Space \o f.name
    \o S_ParenOpen \o join(S_CommaSpace, Map(ArgumentStr, f.arguments))
    \o S_ParenClose

generate_extern_function_wrappers(functions) ==
  Map(LAMBDA f :
        WrapperSignature(f) \o S_BodyOpen
          \o S_return \o f.name \o S_impl_call
          \o join(S_CommaSpace, Map(ArgumentName, f.arguments))
          \o S_ParenSemi \o S_Newline
          \o S_BodyClose,
      functions)

generate_wrapper_declarations(functions) ==
  Map(LAMBDA f : WrapperSignature(f) \o S_Semi, functions)

-----------------------------------------------------------------------------
(* The wrangler context and its aggregator.  A bucket is named by the pair *)
(* <<group, variable>> of its two dictionary keys.                         *)

B_typedefs             == <<S_functions, S_typedefs>>
B_wrapper_declarations == <<S_functions, S_wrapper_declarations>>
B_declarations         == <<S_functions, S_declarations>>
B_definitions          == <<S_functions, S_definitions>>
B_dynload              == <<S_functions, S_dynload>>
B_wrappers             == <<S_functions, S_wrappers>>
B_types                == <<S_types, S_definitions>>
B_all                  == <<S_definitions, S_all>>

\* The buckets in the order the dictionary literal of __main__ inserts them,
\* which is the order `for group in wrangler: for variable in ...` visits.
WranglerOrder ==
  <<B_typedefs, B_wrapper_declarations, B_declarations, B_definitions,
    B_dynload, B_wrappers, B_types, B_all>>

Buckets == {WranglerOrder[i] : i \in 1..Len(WranglerOrder)}

FunctionBuckets ==
  {B_typedefs, B_wrapper_declarations, B_declarations, B_definitions,
   B_dynload, B_wrappers}

EmptyWrangler == [b \in Buckets |-> <<>>]

\* extend inserting the lines at the front of the list.
extend_AtFront(list, lines) == lines \o list

\* list.extend(lines)
extend(list, lines) == list \o lines

section(header) == <<S_CommentOpen \o basename(header) \o S_CommentClose>>

add_functions_to_wrangler(header, wrangler_, functions) ==
  LET typedefs == section(header) \o generate_function_typedefs(functions)
      externs == section(header)
                   \o generate_extern_function_declarations(functions)
      definitions == section(header)
                       \o generate_extern_function_definitions(functions)
      dynload == <<S_Indent \o section(header)[1]>>
                   \o generate_dynload_calls(header, functions)
      wrappers == section(header)
                    \o generate_extern_function_wrappers(functions)
      wrapper_declarations == generate_wrapper_declarations(functions)
  IN  [wrangler_ EXCEPT
         ![B_typedefs] = extend(@, typedefs),
         ![B_wrapper_declarations] = extend(@, wrapper_declarations),
         ![B_declarations] = extend(@, externs),
         ![B_definitions] = extend(@, definitions),
         ![B_dynload] = extend(@, dynload),
         ![B_wrappers] = extend(@, wrappers)]

add_types_to_wrangler(header, wrangler_, types) ==
  LET typedefs ==
        <<S_CommentOpen \o basename(header) \o S_CommentClose>>
          \o Map(LAMBDA type : TypeDefinitionStr(type) \o S_SemiNewline, types)
  IN  [wrangler_ EXCEPT ![B_types] = extend(@, typedefs)]

add_definitions_to_wrangler(header, wrangler_, definitions) ==
  [wrangler_ EXCEPT ![B_all] = extend(@, definitions)]

-----------------------------------------------------------------------------
(* The template substitution engine.                                       *)

template_variable(bucket) ==
  S_Percent \o bucket[1] \o S_Underscore \o bucket[2] \o S_Percent

\* The nested for loop of replace_template_variables over the buckets that
\* remain to be visited.
RECURSIVE ReplaceLoop(_, _, _)
ReplaceLoop(wrangler_, order, data) ==
  IF order = <<>> THEN data
  ELSE ReplaceLoop(wrangler_, Tail(order),
                   replace(data, template_variable(order[1]),
                           join(S_Newline, wrangler_[order[1]])))

replace_template_variables(wrangler_, data) ==
  ReplaceLoop(wrangler_, WranglerOrder, data)

-----------------------------------------------------------------------------
(* The environment of a run: the header files on disk with what libclang   *)
(* parses them to, and the two template files.                             *)

Path_xcb ==
  <<"/", "i", "/", "x", "c", "b", ".", "h">>
Path_other ==
  <<"/", "i", "/", "o", ".", "h">>
Path_xhq ==
  <<"/", "i", "/", "x", ".", "h", "q", ".", "h">>
Path_odd ==
  <<"/", "i", "/", "%", "d", "e", "f", "i", "n", "i", "t", "i", "o", "n", "s", "_", "a", "l", "l", "%", ".", "h">>
N_f ==
  <<"f">>
N_g ==
  <<"g">>
N_a ==
  <<"a">>
N_d ==
  <<"d">>
N_ext ==
  <<"e", "x", "t">>
N_s ==
  <<"s">>
N_x ==
  <<"x">>
N_s_t ==
  <<"s", "_", "t">>
N_size_t ==
  <<"s", "i", "z", "e", "_", "t">>
T_int ==
  <<"i", "n", "t">>
T_void ==
  <<"v", "o", "i", "d">>
T_intpp ==
  <<"i", "n", "t", " ", "*", "*">>
T_constcharp ==
  <<"c", "o", "n", "s", "t", " ", "c", "h", "a", "r", " ", "*">>
T_int2 ==
  <<"i", "n", "t", " ", "[", "2", "]">>
T_ulong ==
  <<"u", "n", "s", "i", "g", "n", "e", "d", " ", "l", "o", "n", "g">>
T_struct_s ==
  <<"s", "t", "r", "u", "c", "t", " ", "s">>
L_xcb_none ==
  <<" ", " ", "#", "d", "e", "f", "i", "n", "e", " ", "X", "C", "B", "_", "N", "O", "N", "E", " ", "0", "\n">>
L_foo ==
  <<"#", "d", "e", "f", "i", "n", "e", " ", "F", "O", "O", " ", "1", "\n">>
L_xcb_b ==
  <<"#", "d", "e", "f", "i", "n", "e", " ", "X", "C", "B", "_", "B", " ", "2", "\n">>
Tpl_h ==
  <<"%", "d", "e", "f", "i", "n", "i", "t", "i", "o", "n", "s", "_", "a", "l", "l", "%", "\n", "%", "t", "y", "p", "e", "s", "_", "d", "e", "f", "i", "n", "i", "t", "i", "o", "n", "s", "%", "\n", "%", "f", "u", "n", "c", "t", "i", "o", "n", "s", "_", "t", "y", "p", "e", "d", "e", "f", "s", "%", "\n", "%", "f", "u", "n", "c", "t", "i", "o", "n", "s", "_", "d", "e", "c", "l", "a", "r", "a", "t", "i", "o", "n", "s", "%", "\n", "%", "f", "u", "n", "c", "t", "i", "o", "n", "s", "_", "w", "r", "a", "p", "p", "e", "r", "_", "d", "e", "c", "l", "a", "r", "a", "t", "i", "o", "n", "s", "%", "\n", "%", "f", "u", "n", "c", "t", "i", "o", "n", "s", "_", "s", "t", "a", "t", "i", "c", "%", "\n">>
Tpl_c ==
  <<"%", "f", "u", "n", "c", "t", "i", "o", "n", "s", "_", "d", "e", "f", "i", "n", "i", "t", "i", "o", "n", "s", "%", "\n", "%", "f", "u", "n", "c", "t", "i", "o", "n", "s", "_", "d", "y", "n", "l", "o", "a", "d", "%", "\n", "%", "f", "u", "n", "c", "t", "i", "o", "n", "s", "_", "w", "r", "a", "p", "p", "e", "r", "s", "%", "\n">>
N_h ==
  <<"h">>
N_empty ==
  <<>>
Cursor(kind, spelling, file, children) ==
  [kind |-> kind, spelling |-> spelling, file |-> file, children |-> children,
   type |-> <<>>, result_type |-> <<>>, canonical |-> <<>>, enum_value |-> 0]

\* int **f(const char *a, int d[2]);
Cursor_a == [Cursor("PARM_DECL", N_a, Path_xcb, <<>>) EXCEPT !.type = T_constcharp]
Cursor_d == [Cursor("PARM_DECL", N_d, Path_xcb, <<>>) EXCEPT !.type = T_int2]
Cursor_f ==
  [Cursor("FUNCTION_DECL", N_f, Path_xcb, <<Cursor_a, Cursor_d>>)
     EXCEPT !.result_type = T_intpp]

\* a prototype pulled in from an included header
Cursor_ext ==
  [Cursor("FUNCTION_DECL", N_ext, Path_other, <<>>) EXCEPT !.result_type = T_int]

\* a builtin declaration: location.file is None
Cursor_builtin ==
  [Cursor("TYPEDEF_DECL", N_size_t, None, <<>>) EXCEPT !.canonical = T_ulong]

\* typedef struct s { int x; } s_t;
Cursor_x == [Cursor("FIELD_DECL", N_x, Path_xcb, <<>>) EXCEPT !.type = T_int]
Cursor_s == Cursor("STRUCT_DECL", N_s, Path_xcb, <<Cursor_x>>)
Cursor_s_t ==
  [Cursor("TYPEDEF_DECL", N_s_t, Path_xcb, <<Cursor_s>>)
     EXCEPT !.canonical = T_struct_s]

\* void g();
Cursor_g ==
  [Cursor("FUNCTION_DECL", N_g, Path_xhq, <<>>) EXCEPT !.result_type = T_void]

\* int h(int);  the parameter has no name
Cursor_anonymous ==
  [Cursor("PARM_DECL", N_empty, Path_xhq, <<>>) EXCEPT !.type = T_int]
Cursor_h ==
  [Cursor("FUNCTION_DECL", N_h, Path_xhq, <<Cursor_anonymous>>)
     EXCEPT !.result_type = T_int]

\* What Index.parse yields for a header, and the lines of the header text.
HeaderFiles ==
  << [path |-> Path_xcb,
      tu   |-> [spelling |-> Path_xcb,
                cursors  |-> <<Cursor_builtin, Cursor_ext, Cursor_f, Cursor_a,
                               Cursor_d, Cursor_s_t, Cursor_s, Cursor_x>>],
      text |-> <<L_xcb_none, L_foo>>],
     [path |-> Path_xhq,
      tu   |-> [spelling |-> Path_xhq,
                cursors  |-> <<Cursor_ext, Cursor_g, Cursor_h, Cursor_anonymous>>],
      text |-> <<L_xcb_b>>],
     \* a header that declares nothing
     [path |-> Path_odd,
      tu   |-> [spelling |-> Path_odd, cursors |-> <<>>],
      text |-> <<>>] >>

HeaderIds == DOMAIN HeaderFiles

parse_file(file) ==
  [functions   |-> collect_function_prototypes(file.tu),
   types       |-> collect_types(file.tu),
   definitions |-> collect_defines(file.text)]

\* The two (template, destination) pairs of write_wrangler_to_files.
Destinations == {"xcbew.h", "xcbew.c"}

Template(destination) == IF destination = "xcbew.h" THEN Tpl_h ELSE Tpl_c

\* write_wrangler_to_file: the destination holds the substituted template.
write_wrangler_to_file(wrangler_, files_, destination) ==
  [files_ EXCEPT
     ![destination] = replace_template_variables(wrangler_, Template(destination))]

write_wrangler_to_files(wrangler_, files_) ==
  write_wrangler_to_file(wrangler_,
                         write_wrangler_to_file(wrangler_, files_, "xcbew.h"),
                         "xcbew.c")

-----------------------------------------------------------------------------
(* Idle values of the groups of variables a specification does not use.    *)

IdleMain ==
  /\ headers = <<>> /\ hidx = 0 /\ pc = "idle" /\ parsed = None
  /\ wrangler = EmptyWrangler
  /\ files = [d \in Destinations |-> None] /\ nwrites = 0

IdleFunction ==
  fcursor = None /\ function = None /\ fragments = None /\ fpc = "idle"

IdleMerge ==
  /\ acursor = None /\ argument = None /\ mtype = None /\ dimension = None
  /\ mpc = "idle" /\ mresult = None

IdleDefines == text = <<>> /\ defines = None /\ dpc = "idle"

IdleTypedef == tcursor = None /\ typedefinition = None /\ tpc = "idle"

-----------------------------------------------------------------------------
(* The __main__ run.  The header list is the built-in tuple or the one     *)
(* header of the command line; the model lets it be any list of at most    *)
(* MaxHeaders header files.                                                *)

notMainVars == <<functionVars, mergeVars, definesVars, typedefVars>>

HeaderLists ==
  UNION {[1..n -> HeaderIds] : n \in 1..MaxHeaders}

Header(i) == HeaderFiles[headers[i]]

InitMain ==
  /\ headers \in HeaderLists
  /\ hidx = 1
  /\ pc = "parse_file"
  /\ parsed = None
  /\ wrangler = EmptyWrangler
  /\ files = [d \in Destinations |-> None]
  /\ nwrites = 0

Init == InitMain /\ IdleFunction /\ IdleMerge /\ IdleDefines /\ IdleTypedef

\* functions, types, definitions = parse_file(header)
ParseFile ==
  /\ pc = "parse_file"
  /\ parsed' = parse_file(Header(hidx))
  /\ pc' = "add_functions"
  /\ UNCHANGED <<headers, hidx, wrangler, files, nwrites>>
  /\ UNCHANGED notMainVars

AddFunctions ==
  /\ pc = "add_functions"
  /\ wrangler' = add_functions_to_wrangler(Header(hidx).path, wrangler,
                                           parsed.functions)
  /\ pc' = "add_types"
  /\ UNCHANGED <<headers, hidx, parsed, files, nwrites>>
  /\ UNCHANGED notMainVars

AddTypes ==
  /\ pc = "add_types"
  /\ wrangler' = add_types_to_wrangler(Header(hidx).path, wrangler, parsed.types)
  /\ pc' = "add_definitions"
  /\ UNCHANGED <<headers, hidx, parsed, files, nwrites>>
  /\ UNCHANGED notMainVars

AddDefinitions ==
  /\ pc = "add_definitions"
  /\ wrangler' = add_definitions_to_wrangler(Header(hidx).path, wrangler,
                                             parsed.definitions)
  /\ pc' = "write_wrangler_to_files"
  /\ UNCHANGED <<headers, hidx, parsed, files, nwrites>>
  /\ UNCHANGED notMainVars

\* The last statement of the loop body, then the loop's next iteration or
\* its end.
WriteWranglerToFiles ==
  /\ pc = "write_wrangler_to_files"
  /\ files' = write_wrangler_to_files(wrangler, files)
  /\ nwrites' = nwrites + 1
  /\ IF hidx < Len(headers)
     THEN hidx' = hidx + 1 /\ pc' = "parse_file"
     ELSE hidx' = hidx /\ pc' = "done"
  /\ UNCHANGED <<headers, parsed, wrangler>>
  /\ UNCHANGED notMainVars

Next ==
  \/ ParseFile
  \/ AddFunctions
  \/ AddTypes
  \/ AddDefinitions
  \/ WriteWranglerToFiles

Spec == Init /\ [][Next]_vars

-----------------------------------------------------------------------------
(* The strings of at most n tokens: the inputs of the scenarios below.     *)

RECURSIVE Spellings(_, _)
Spellings(tokens, n) ==
  IF n = 0 THEN {<<>>}
  ELSE LET shorter == Spellings(tokens, n - 1)
       IN  shorter \cup {s \o t : s \in shorter, t \in tokens}

RECURSIVE ListsUpTo(_, _)
ListsUpTo(pool, n) ==
  IF n = 0 THEN {<<>>}
  ELSE LET shorter == ListsUpTo(pool, n - 1)
       IN  shorter \cup {Append(l, x) : l \in shorter, x \in pool}

Tk_Foo ==
  <<"F", "o", "o">>
Tk_c ==
  <<"c">>
Tk_Open ==
  <<"[">>
Tk_Close ==
  <<"]">>
Tk_Dim2 ==
  <<"[", "2", "]">>
N_u ==
  <<"u">>
N_e ==
  <<"e">>
N_A ==
  <<"A">>
N_r_t ==
  <<"r", "_", "t">>
N_p ==
  <<"p">>
N_td ==
  <<"t", "d">>
T_struct_s_p ==
  <<"s", "t", "r", "u", "c", "t", " ", "s", " ", "*">>
L_define_none ==
  <<"#", "d", "e", "f", "i", "n", "e", " ", "X", "C", "B", "_", "N", "O", "N", "E", " ", "0", "\n">>
L_define_indented ==
  <<"\t", "#", "d", "e", "f", "i", "n", "e", " ", "X", "C", "B", "_", "A", " ", "1", "\n">>
L_blank ==
  <<"\n">>
L_prototype ==
  <<"i", "n", "t", " ", "f", "(", "v", "o", "i", "d", ")", ";", "\n">>
L_define_last ==
  <<"#", "d", "e", "f", "i", "n", "e", " ", "X", "C", "B", "X">>
D_xcb_b ==
  <<"#", "d", "e", "f", "i", "n", "e", " ", "X", "C", "B", "_", "B", " ", "2">>
D_xcb_none ==
  <<"#", "d", "e", "f", "i", "n", "e", " ", "X", "C", "B", "_", "N", "O", "N", "E", " ", "0">>
X_int4 ==
  <<"i", "n", "t", "[", "4", "]">>
X_int_x4 ==
  <<"i", "n", "t", " ", "x", "[", "4", "]">>
X_char23 ==
  <<"c", "h", "a", "r", "[", "2", "]", "[", "3", "]">>
X_buf ==
  <<"b", "u", "f">>
X_char_buf23 ==
  <<"c", "h", "a", "r", " ", "b", "u", "f", "[", "2", "]", "[", "3", "]">>
X_c2e ==
  <<"c", "[", "2", "]", "[", "]">>
-----------------------------------------------------------------------------
(* Scenario: one FUNCTION_DECL cursor is turned into a Function and the    *)
(* fragments of the function are generated.                                *)

\* A raw type spelling: "struct " prefixes, a type name, pointer stars.
TypeNames == {T_int, Tk_Foo}

PointerTokens == {S_SpaceStar, S_Star}

TypeSpellings ==
  {prefix \o name \o stars :
     prefix \in Spellings({S_struct}, MaxTokens - 1),
     name \in TypeNames,
     stars \in Spellings(PointerTokens, MaxTokens)}

\* an attribute node, which is no PARM_DECL
Cursor_attribute == Cursor("UNEXPOSED_ATTR", N_empty, Path_xcb, <<>>)

ParameterLists ==
  {<<>>, <<Cursor_a, Cursor_d>>, <<Cursor_attribute, Cursor_anonymous, Cursor_a>>}

FunctionCursors ==
  {[Cursor("FUNCTION_DECL", N_f, Path_xcb, params) EXCEPT !.result_type = t] :
     params \in ParameterLists, t \in TypeSpellings}

notFunctionVars == <<mainVars, mergeVars, definesVars, typedefVars>>

InitFunction ==
  /\ fcursor \in FunctionCursors
  /\ function = None
  /\ fragments = None
  /\ fpc = "cursor"
  /\ IdleMain /\ IdleMerge /\ IdleDefines /\ IdleTypedef

\* functions.append(Function(cursor))
NewFunction ==
  /\ fpc = "cursor"
  /\ function' = Function(fcursor)
  /\ fpc' = "function"
  /\ UNCHANGED <<fcursor, fragments>>
  /\ UNCHANGED notFunctionVars

\* The generators add_functions_to_wrangler calls, on the one function.
GenerateFragments ==
  /\ fpc = "function"
  /\ fragments' =
       [typedef             |-> generate_function_typedefs(<<function>>)[1],
        declaration         |-> generate_extern_function_declarations(<<function>>)[1],
        definition          |-> generate_extern_function_definitions(<<function>>)[1],
        wrapper             |-> generate_extern_function_wrappers(<<function>>)[1],
        wrapper_declaration |-> generate_wrapper_declarations(<<function>>)[1]]
  /\ fpc' = "generated"
  /\ UNCHANGED <<fcursor, function>>
  /\ UNCHANGED notFunctionVars

NextFunction ==
  \/ NewFunction
  \/ GenerateFragments

SpecFunction == InitFunction /\ [][NextFunction]_vars

-----------------------------------------------------------------------------
(* Scenario: one PARM_DECL cursor is turned into an Argument and           *)
(* str(argument) runs mergeTypeAndVariable, one loop iteration per step.   *)

MergeTokens == {Tk_c, S_Space, S_SpaceStar, Tk_Open, Tk_Close, Tk_Dim2}

VariableNames == {N_empty, N_x}

ArgumentCursors ==
  {[Cursor("PARM_DECL", v, Path_xcb, <<>>) EXCEPT !.type = t] :
     v \in VariableNames, t \in Spellings(MergeTokens, MaxMergeTokens)}

notMergeVars == <<mainVars, functionVars, definesVars, typedefVars>>

InitMerge ==
  /\ acursor \in ArgumentCursors
  /\ argument = None
  /\ mtype = None
  /\ dimension = None
  /\ mpc = "cursor"
  /\ mresult = None
  /\ IdleMain /\ IdleFunction /\ IdleDefines /\ IdleTypedef

\* self.arguments.append(Argument(child))
NewArgument ==
  /\ mpc = "cursor"
  /\ argument' = Argument(acursor)
  /\ mpc' = "str"
  /\ UNCHANGED <<acursor, mtype, dimension, mresult>>
  /\ UNCHANGED notMergeVars

\* dimension = ""; type = type.strip()
MergeEnter ==
  /\ mpc = "str"
  /\ mtype' = MergeEntry(argument.type).type
  /\ dimension' = MergeEntry(argument.type).dimension
  /\ mpc' = "while"
  /\ UNCHANGED <<acursor, argument, mresult>>
  /\ UNCHANGED notMergeVars

\* one iteration of the while loop
MergeIterate ==
  /\ mpc = "while"
  /\ MergeLoopCondition([type |-> mtype, dimension |-> dimension])
  /\ mtype' = MergeLoopBody([type |-> mtype, dimension |-> dimension]).type
  /\ dimension' = MergeLoopBody([type |-> mtype, dimension |-> dimension]).dimension
  /\ UNCHANGED <<acursor, argument, mpc, mresult>>
  /\ UNCHANGED notMergeVars

\* the loop ends and the function returns
MergeReturn ==
  /\ mpc = "while"
  /\ ~MergeLoopCondition([type |-> mtype, dimension |-> dimension])
  /\ mresult' = MergeFormat([type |-> mtype, dimension |-> dimension],
                            argument.name)
  /\ mpc' = "returned"
  /\ UNCHANGED <<acursor, argument, mtype, dimension>>
  /\ UNCHANGED notMergeVars

NextMerge ==
  \/ NewArgument
  \/ MergeEnter
  \/ MergeIterate
  \/ MergeReturn

SpecMerge == InitMerge /\ [][NextMerge]_vars

-----------------------------------------------------------------------------
(* Scenario: collect_defines scans a header text and                       *)
(* add_definitions_to_wrangler appends what it returned.                   *)

LinePool ==
  {L_define_none, L_foo, L_xcb_none, L_define_indented, L_blank, L_prototype,
   L_define_last}

HeaderTexts == ListsUpTo(LinePool, MaxLines)

notDefinesVars == <<functionVars, mergeVars, typedefVars>>

InitDefines ==
  /\ text \in HeaderTexts
  /\ defines = None
  /\ dpc = "text"
  /\ headers = <<>> /\ hidx = 0 /\ pc = "idle" /\ parsed = None
  /\ wrangler \in {EmptyWrangler,
                   [EmptyWrangler EXCEPT ![B_all] = <<D_xcb_b>>]}
  /\ files = [d \in Destinations |-> None] /\ nwrites = 0
  /\ IdleFunction /\ IdleMerge /\ IdleTypedef

\* defines = collect_defines(file_name)
CollectDefines ==
  /\ dpc = "text"
  /\ defines' = collect_defines(text)
  /\ dpc' = "collected"
  /\ UNCHANGED <<text, mainVars>>
  /\ UNCHANGED notDefinesVars

\* add_definitions_to_wrangler(header, wrangler, definitions)
AddCollectedDefinitions ==
  /\ dpc = "collected"
  /\ wrangler' = add_definitions_to_wrangler(Path_xcb, wrangler, defines)
  /\ dpc' = "added"
  /\ UNCHANGED <<text, defines, headers, hidx, pc, parsed, files, nwrites>>
  /\ UNCHANGED notDefinesVars

NextDefines ==
  \/ CollectDefines
  \/ AddCollectedDefinitions

SpecDefines == InitDefines /\ [][NextDefines]_vars

-----------------------------------------------------------------------------
(* Scenario: one TYPEDEF_DECL cursor is turned into a TypeDefinition.      *)

\* union u { int x; }
Cursor_u == Cursor("UNION_DECL", N_u, Path_xcb, <<Cursor_x>>)

\* enum e { A = 1 }
Cursor_A ==
  [Cursor("ENUM_CONSTANT_DECL", N_A, Path_xcb, <<>>) EXCEPT !.enum_value = 1]
Cursor_e == Cursor("ENUM_DECL", N_e, Path_xcb, <<Cursor_A>>)

\* a reference to the type r_t
Cursor_r_t == Cursor("TYPE_REF", N_r_t, Path_xcb, <<>>)

\* a parameter of a function-pointer typedef
Cursor_p == [Cursor("PARM_DECL", N_p, Path_xcb, <<>>) EXCEPT !.type = T_int]

ChildPool == {Cursor_s, Cursor_u, Cursor_e, Cursor_r_t, Cursor_p}

TypedefCursors ==
  {[Cursor("TYPEDEF_DECL", N_td, Path_xcb, children)
      EXCEPT !.canonical = T_struct_s_p] :
     children \in ListsUpTo(ChildPool, MaxChildren)}

notTypedefVars == <<mainVars, functionVars, mergeVars, definesVars>>

InitTypedef ==
  /\ tcursor \in TypedefCursors
  /\ typedefinition = None
  /\ tpc = "cursor"
  /\ IdleMain /\ IdleFunction /\ IdleMerge /\ IdleDefines

\* types.append(TypeDefinition(cursor))
NewTypeDefinition ==
  /\ tpc = "cursor"
  /\ typedefinition' = TypeDefinition(tcursor)
  /\ tpc' = "built"
  /\ UNCHANGED tcursor
  /\ UNCHANGED notTypedefVars

NextTypedef == NewTypeDefinition

SpecTypedef == InitTypedef /\ [][NextTypedef]_vars

-----------------------------------------------------------------------------
(* Properties of the __main__ run (specification Spec).                    *)

\* The number of headers add_functions_to_wrangler has run for.
AddedFunctions ==
  IF pc \in {"parse_file", "add_functions"} THEN hidx - 1 ELSE hidx

\* The number of headers add_types_to_wrangler has run for.
AddedTypes ==
  IF pc \in {"parse_file", "add_functions", "add_types"} THEN hidx - 1 ELSE hidx

\* The number of headers add_definitions_to_wrangler has run for.
AddedDefinitions ==
  IF pc \in {"parse_file", "add_functions", "add_types", "add_definitions"}
  THEN hidx - 1 ELSE hidx

Added(bucket) ==
  IF bucket \in FunctionBuckets THEN AddedFunctions
  ELSE IF bucket = B_types THEN AddedTypes
  ELSE AddedDefinitions

\* The three add_* operations have run for every header up to hidx.
HeaderAdded == pc \in {"write_wrangler_to_files", "done"}

\* The fragments the synthesizer generates for header file h in a bucket,
\* without any marker line.
Fragments(bucket, h) ==
  LET p == parse_file(HeaderFiles[h])
      path == HeaderFiles[h].path
  IN  CASE bucket = B_typedefs -> generate_function_typedefs(p.functions)
        [] bucket = B_wrapper_declarations ->
             generate_wrapper_declarations(p.functions)
        [] bucket = B_declarations ->
             generate_extern_function_declarations(p.functions)
        [] bucket = B_definitions ->
             generate_extern_function_definitions(p.functions)
        [] bucket = B_dynload -> generate_dynload_calls(path, p.functions)
        [] bucket = B_wrappers -> generate_extern_function_wrappers(p.functions)
        [] bucket = B_types ->
             Map(LAMBDA t : TypeDefinitionStr(t) \o S_SemiNewline, p.types)
        [] bucket = B_all -> p.definitions

\* A marker line naming the base filename of header file h: the comment
\* "/* <basename> */", indented or not.
NamesHeader(line, h) ==
  strip(line) = S_CommentOpen \o basename(HeaderFiles[h].path) \o S_CommentClose

\* lines is, header after header of hs, one marker line naming the header
\* followed by exactly the header's fragments.
RECURSIVE MarkedBlocks(_, _, _)
MarkedBlocks(lines, hs, bucket) ==
  IF hs = <<>> THEN lines = <<>>
  ELSE LET n == Len(Fragments(bucket, hs[1]))
       IN  /\ Len(lines) >= n + 1
           /\ NamesHeader(lines[1], hs[1])
           /\ SubSeq(lines, 2, n + 1) = Fragments(bucket, hs[1])
           /\ MarkedBlocks(SubSeq(lines, n + 2, Len(lines)), Tail(hs), bucket)

\* C1: once the three add_* operations have run for a header, in every one
\* of the eight buckets the lines of each processed header are immediately
\* preceded by exactly one marker line naming that header's base filename
\* (also for a header that contributes no fragment).
C1_MarkerInEveryBucket ==
  HeaderAdded =>
    \A bucket \in Buckets :
      MarkedBlocks(wrangler[bucket], SubSeq(headers, 1, hidx), bucket)

\* C2: the wrangler context is consumed exactly once per run, and
\* write_wrangler_to_files is never invoked while a header of the list is
\* still unprocessed.
C2_WriteOnceAfterAllHeaders ==
  /\ pc = "write_wrangler_to_files" => hidx = Len(headers)
  /\ nwrites <= 1
  /\ pc = "done" => nwrites = 1

\* What one run of the three add_* operations for header file h puts into
\* a bucket of an empty context.
Contribution(bucket, h) ==
  LET p == parse_file(HeaderFiles[h])
      path == HeaderFiles[h].path
  IN  add_definitions_to_wrangler(path,
        add_types_to_wrangler(path,
          add_functions_to_wrangler(path, EmptyWrangler, p.functions),
          p.types),
        p.definitions)[bucket]

\* Every bucket is the contributions of the headers added so far, one whole
\* block per processed header (twice for a header processed twice), in the
\* order the headers were processed.
C3_BlocksInHeaderOrder ==
  \A bucket \in Buckets :
    wrangler[bucket] =
      Flatten([i \in 1..Added(bucket) |-> Contribution(bucket, headers[i])])

\* The names of the functions a header file declares itself, in the order
\* of its declarations.
DeclaredFunctionNames(h) ==
  LET tu == HeaderFiles[h].tu
      own == SelectSeq(tu.cursors,
                       LAMBDA c : c.kind = "FUNCTION_DECL" /\ c.file = tu.spelling)
  IN  [i \in 1..Len(own) |-> own[i].spelling]

\* Within a header's block the lines follow the declaration order of the
\* header: its k-th fragment is the one of its k-th declared function.
C3_DeclarationOrder ==
  \A h \in HeaderIds :
    /\ Len(Fragments(B_declarations, h)) = Len(DeclaredFunctionNames(h))
    /\ \A bucket \in FunctionBuckets :
         Len(Fragments(bucket, h)) = Len(DeclaredFunctionNames(h))
    /\ \A k \in 1..Len(DeclaredFunctionNames(h)) :
         LET name == DeclaredFunctionNames(h)[k]
         IN  /\ Fragments(B_declarations, h)[k]
                  = S_extern_t \o name \o S_Space \o name \o S_impl_semi
             /\ Fragments(B_definitions, h)[k]
                  = S_t \o name \o S_Space \o name \o S_impl_semi
             /\ find(Fragments(B_typedefs, h)[k],
                     S_FnPtrOpen \o name \o S_FnPtrClose) # -1
             /\ find(Fragments(B_wrappers, h)[k], name \o S_impl_call) # -1
             /\ find(Fragments(B_wrapper_declarations, h)[k],
                     S_Space \o name \o S_ParenOpen) # -1
             /\ find(Fragments(B_dynload, h)[k],
                     S_LIBRARY_FIND \o name \o S_ParenSemi) # -1

\* A step only appends to a bucket: its content stays a prefix.
C3_PrefixKept ==
  \A bucket \in Buckets :
    /\ Len(wrangler[bucket]) <= Len(wrangler'[bucket])
    /\ SubSeq(wrangler'[bucket], 1, Len(wrangler[bucket])) = wrangler[bucket]

\* C3: every bucket only grows by appending at its end; the blocks of the
\* processed headers follow each other in processing order without
\* interleaving, each in declaration order, and a header processed twice
\* yields its block twice.
C3_AppendOnlyInOrder ==
  /\ [](C3_BlocksInHeaderOrder /\ C3_DeclarationOrder)
  /\ [][C3_PrefixKept]_vars

\* A finished run that processed a header with two functions twice, with
\* another header in between.
C3_Witness ==
  /\ pc = "done"
  /\ \E i, j, k \in 1..Len(headers) :
       /\ i < j /\ j < k
       /\ headers[i] = headers[k] /\ headers[i] # headers[j]
       /\ Len(DeclaredFunctionNames(headers[i])) = 2
       /\ Len(DeclaredFunctionNames(headers[j])) = 1
  /\ Len(wrangler[B_typedefs]) = Len(headers) + 5

\* The result the substitution engine is to produce: every placeholder
\* token of a bucket that occurs in the template text s is replaced by the
\* bucket's joined lines, and nothing else changes; inserted text is not
\* looked at again.
RECURSIVE SubstituteTemplateText(_, _)
SubstituteTemplateText(wrangler_, s) ==
  LET hits == {b \in Buckets : find(s, template_variable(b)) # -1}
  IN  IF hits = {} THEN s
      ELSE LET b == CHOOSE x \in hits :
                      \A y \in hits :
                        find(s, template_variable(x)) <= find(s, template_variable(y))
               index == find(s, template_variable(b))
           IN  SliceTo(s, index) \o join(S_Newline, wrangler_[b])
                 \o SubstituteTemplateText(
                      wrangler_, SliceFrom(s, index + Len(template_variable(b))))

\* C7: what write_wrangler_to_files wrote is the template text with every
\* occurrence of a bucket's placeholder token in the template replaced by
\* the bucket's lines joined with newlines, other template text untouched
\* and inserted bucket text emitted unchanged.
C7_OnlyTemplateOccurrencesReplaced ==
  (nwrites > 0 /\ pc \in {"parse_file", "done"}) =>
    \A d \in Destinations :
      files[d] = SubstituteTemplateText(wrangler, Template(d))

\* The base filename without its final extension.
StripExtension(name) ==
  LET index == rfind(name, ".")
  IN  IF index <= 0 THEN name ELSE SliceTo(name, index)

\* The dynload lines the claim describes for header file h.
DynloadLines(h) ==
  LET names == DeclaredFunctionNames(h)
  IN  [k \in 1..Len(names) |->
         S_Indent \o upper(StripExtension(basename(HeaderFiles[h].path)))
           \o S_LIBRARY_FIND \o names[k] \o S_ParenSemi]

IsMarkerLine(line) == startswith(strip(line), S_CommentOpen)

\* C10: the dynload bucket holds, for every processed header and every
\* function of it in order, the line "  <PREFIX>_LIBRARY_FIND(<name>);"
\* where PREFIX is the upper-cased base filename with only its extension
\* stripped.
C10_PrefixIsBaseNameWithoutExtension ==
  SelectSeq(wrangler[B_dynload], LAMBDA line : ~IsMarkerLine(line))
    = Flatten([i \in 1..AddedFunctions |-> DynloadLines(headers[i])])

-----------------------------------------------------------------------------
(* Properties of one Function and its fragments (specification             *)
(* SpecFunction).                                                          *)

\* C4: type normalization is idempotent: normalizing the normalized return
\* type of a function again gives the same text.
C4_NormalizationIdempotent ==
  fpc \in {"function", "generated"} =>
    formatAndCleanType(function.return_type) = function.return_type

\* s.split(sep)
RECURSIVE split(_, _)
split(s, sep) ==
  LET index == find(s, sep)
  IN  IF index = -1 THEN <<s>>
      ELSE <<SliceTo(s, index)>> \o split(SliceFrom(s, index + Len(sep)), sep)

\* The texts of the arguments of a comma-separated argument list.
ArgumentTexts(args) == Map(strip, split(args, S_Comma))

\* Reading a typedef fragment "typedef <return> (*t<name>) (<args>);".
TypedefReturnText(line, name) ==
  LET body == SliceFrom(line, Len(S_typedef))
  IN  SliceTo(body, find(body, S_FnPtrOpen \o name \o S_FnPtrClose))

TypedefArguments(line, name) ==
  LET opening == S_FnPtrOpen \o name \o S_FnPtrClose
      rest == SliceFrom(line, find(line, opening) + Len(opening))
  IN  ArgumentTexts(SliceTo(rest, Len(rest) - Len(S_ParenSemi)))

\* Reading a wrapper fragment "<return> <name>(<args>)...".
WrapperReturnText(line, name) ==
  SliceTo(line, find(line, S_Space \o name \o S_ParenOpen))

WrapperArguments(line, name) ==
  LET opening == S_Space \o name \o S_ParenOpen
      rest == SliceFrom(line, find(line, opening) + Len(opening))
  IN  ArgumentTexts(SliceTo(rest, find(rest, S_ParenClose)))

\* C5: the fragments generated for a function agree on its signature: the
\* return type text and the argument sequence of the typedef fragment are
\* those of the wrapper prototype and of the wrapper body.
C5_FragmentsShareSignature ==
  fpc = "generated" =>
    /\ TypedefReturnText(fragments.typedef, function.name)
         = WrapperReturnText(fragments.wrapper_declaration, function.name)
    /\ TypedefReturnText(fragments.typedef, function.name)
         = WrapperReturnText(fragments.wrapper, function.name)
    /\ TypedefArguments(fragments.typedef, function.name)
         = WrapperArguments(fragments.wrapper_declaration, function.name)
    /\ TypedefArguments(fragments.typedef, function.name)
         = WrapperArguments(fragments.wrapper, function.name)

-----------------------------------------------------------------------------
(* Properties of mergeTypeAndVariable (specification SpecMerge).           *)

\* s is a concatenation of bracket groups "[...]" without nested brackets.
RECURSIVE IsDimensionGroups(_)
IsDimensionGroups(s) ==
  \/ s = <<>>
  \/ /\ s[1] = "["
     /\ \E j \in 2..Len(s) :
          /\ s[j] = "]"
          /\ \A i \in 2..(j - 1) : s[i] \notin {"[", "]"}
          /\ IsDimensionGroups(SubSeq(s, j + 1, Len(s)))

\* The places where type splits into a base not ending with a bracket and a
\* non-empty run of trailing dimension groups.
DimensionSplits(type) ==
  {k \in 0..(Len(type) - 1) :
     /\ ~endswith(SubSeq(type, 1, k), <<"]">>)
     /\ IsDimensionGroups(SubSeq(type, k + 1, Len(type)))}

\* Every iteration of the while loop shortens type: the loop ends.
C9_LoopShortensType ==
  (mpc = "while" /\ mpc' = "while") => Len(mtype') < Len(mtype)

\* The value returned for the argument's type and name.
C9_Relocated ==
  mpc = "returned" =>
    LET type == argument.type
        variable == argument.name
    IN  /\ \A k \in DimensionSplits(type) :
             mresult = strip(SubSeq(type, 1, k)) \o S_Space \o variable
                         \o SubSeq(type, k + 1, Len(type))
        /\ ~endswith(type, <<"]">>) => mresult = type \o S_Space \o variable
        /\ mresult = mergeTypeAndVariable(type, variable)

C9_Examples ==
  /\ mergeTypeAndVariable(X_int4, N_x) = X_int_x4
  /\ mergeTypeAndVariable(X_char23, X_buf) = X_char_buf23

\* C9: mergeTypeAndVariable terminates for every type string; trailing
\* bracket groups move, in their order, right behind the variable name,
\* giving "<base type> <variable><dims>", and a type without a trailing
\* bracket group gives "<type> <variable>".
C9_MergeRelocatesDimensions ==
  /\ [](C9_Relocated /\ C9_Examples)
  /\ [][C9_LoopShortensType]_vars

\* A call that returned after relocating two different dimension groups.
C9_Witness ==
  /\ mpc = "returned"
  /\ argument.type = X_c2e
  /\ argument.name = N_x
  /\ dimension = SliceFrom(X_c2e, 1)

-----------------------------------------------------------------------------
(* Properties of the define passthrough (specification SpecDefines).       *)

\* A line of the file without its line terminator.
LineContent(line) ==
  IF endswith(line, S_Newline) THEN SubSeq(line, 1, Len(line) - 1) ELSE line

RECURSIVE TrimLeft(_)
TrimLeft(s) ==
  IF s # <<>> /\ IsSpace(s[1]) THEN TrimLeft(Tail(s)) ELSE s

RECURSIVE TrimRight(_)
TrimRight(s) ==
  IF s # <<>> /\ IsSpace(s[Len(s)])
  THEN TrimRight(SubSeq(s, 1, Len(s) - 1)) ELSE s

Trimmed(line) == TrimRight(TrimLeft(line))

\* The lines that begin with the macro prefix after trimming, in file order.
PrefixedLines(lines) ==
  SelectSeq(lines, LAMBDA line : startswith(Trimmed(line), S_DefinePrefix))

\* The bucket definitions/all holds what it held before, then the lines
\* collect_defines returned, unchanged.
C6_PassedUnchanged ==
  dpc = "added" =>
    /\ wrangler[B_all] \in {defines, <<D_xcb_b>> \o defines}
    /\ \A bucket \in Buckets \ {B_all} : wrangler[bucket] = <<>>

\* C6 as stated: the returned lines are the prefixed lines kept verbatim,
\* with their original formatting (leading indentation preserved).
C6_LinesKeptVerbatim ==
  /\ dpc # "text" => defines = Map(LineContent, PrefixedLines(text))
  /\ C6_PassedUnchanged

\* C6 as the code has it: collect_defines returns, in file order, exactly
\* the lines that begin with the macro prefix after trimming, each with its
\* leading and trailing whitespace removed; add_definitions_to_wrangler
\* appends them unchanged to definitions/all.
C6_LinesKeptTrimmed ==
  /\ dpc # "text" => defines = Map(Trimmed, PrefixedLines(text))
  /\ (dpc # "text" /\ text = <<L_define_none, L_foo>>) => defines = <<D_xcb_none>>
  /\ C6_PassedUnchanged

\* An indented XCB define next to an unrelated define went through.
C6_Witness ==
  /\ dpc = "added"
  /\ text = <<L_xcb_none, L_foo>>
  /\ wrangler[B_all] = <<D_xcb_b, D_xcb_none>>

-----------------------------------------------------------------------------
(* Properties of TypeDefinition (specification SpecTypedef).               *)

MatchingKinds == {"STRUCT_DECL", "UNION_DECL", "ENUM_DECL", "TYPE_REF"}

\* C8: the first child that is a struct, union, enum or type reference
\* determines TypeDefinition.type, no later child overrides it; without
\* such a child the type is the normalized canonical spelling.
C8_FirstMatchingChildWins ==
  tpc = "built" =>
    LET children == tcursor.children
        matching == {i \in 1..Len(children) : children[i].kind \in MatchingKinds}
    IN  IF matching = {}
        THEN typedefinition.type = formatAndCleanType(tcursor.canonical)
        ELSE typedefinition.type
               = TypeDefinitionLoopBody(children[SetMin(matching)], None)

=============================================================================
